---- MODULE Spec2Model ----
(***************************************************************************)
(* Model of the pane grid of rioterm, frontends/rioterm/src/context/grid.rs *)
(* (ContextGrid, ContextGridItem, ContextDimension, compute).               *)
(*                                                                          *)
(* Encodings.                                                               *)
(*  - f32 pixel quantities (widths, heights, resize deltas) are integers    *)
(*    counting 1/SubPx of a pixel.  Every value the model produces is a     *)
(*    multiple of a power of two that f32 represents exactly, so halving    *)
(*    and adding are exact in both.                                         *)
(*  - usize values are integers read as two's complement: a negative        *)
(*    integer -k stands for 2^64 - k (usize::MAX is -1).  Comparisons of    *)
(*    usize values go through ULt / UGe.                                    *)
(*  - Option<usize> is a sequence of length 0 (None) or 1 (Some(v)).        *)
(*  - A panic (index out of bounds, arithmetic overflow in a build with     *)
(*    overflow checks) sets panicked; no operation runs after it.  Whether  *)
(*    the build has overflow checks is an input of the operations that      *)
(*    subtract from a usize (the parameter checks).                         *)
(*  - A terminal session is the size (columns, screen_lines) it was last   *)
(*    resized to, held in the context it belongs to (terminal).             *)
(*                                                                          *)
(* Specifications.                                                          *)
(*  - Spec: the handlers of ContextGrid, each as one step.                  *)
(*  - SpecUpdates: Spec with update_margin and update_dimensions.           *)
(*  - SpecLock: the handlers with their session steps (lock, resize, drop,  *)
(*    send_resize) one by one, next to the sessions' parser threads.        *)
(*  - SpecLockFair: SpecLock under fair scheduling, for termination.       *)
(*  - SpecSugar: the methods of the renderer's SugarState, each one step.  *)
(*  - SpecCompute: Spec, or one call of compute on arguments of its own.    *)
(***************************************************************************)
EXTENDS Integers, Sequences, FiniteSets, TLC

VARIABLES inner, current, width, height, margin, panicked,
          splits, removes, resizes, removes_le_splits, last_op, pre,
          updates, args, result,
          pc, queue, pending, locks, send_failed,
          state, call, before

\* a call of the function compute on its own: its arguments and its result
computevars == << args, result >>

\* a handler seen step by step: pc is its position in Steps for the session
\* at the head of queue (0 when no handler runs), queue the rich_text_ids of
\* the sessions it has still to resize, pending the fields the engine has
\* when it returns, locks the holder of every session's lock, send_failed
\* whether a send_resize of the handler returned an error
lockvars == << pc, queue, pending, locks, send_failed >>

\* the renderer's SugarState: state is the struct, call the last call of one
\* of its methods with its inputs, before the struct as that call found it
sugarvars == << state, call, before >>

vars == <<inner, current, width, height, margin, panicked,
          splits, removes, resizes, removes_le_splits, last_op, pre,
          updates, computevars, lockvars, sugarvars>>

(* ------------------------------ bounds --------------------------------- *)
\* number of split, remove and resize calls in a run seen step by step or
\* mixed with update_margin / update_dimensions
MaxCalls == 3
\* number of objects in one call of compute_objects
MaxObjects == 2
\* number of handlers started in a run under fair scheduling
MaxHandlers == 2
\* number of update_margin / update_dimensions calls in a run
MaxUpdates == 1
\* number of split_right / split_down calls in a run
MaxSplits == 2
\* number of resize calls in a run
MaxResizes == 1
\* how far select_next_split / select_prev_split may walk an out-of-range
\* focus index away from the valid range before the model stops following it
MaxStray == 1

(* ----------------------------- constants ------------------------------- *)
MIN_COLS == 2
MIN_LINES == 1
PADDING == 4
\* sub-pixel units per pixel
SubPx == 2^12
\* the initial context of test_split_right / test_split_down
InitialWidth == 1200
InitialHeight == 800
CellScale == 2
CellWidth == 14
CellHeight == 8
\* the window sizes resize is called with (pixels): the initial size again,
\* and a wider, lower window
ResizeSizes == {<< 1200, 800 >>, << 1456, 672 >>}

Px(n) == n * SubPx

(* --------------------------- Option<usize> ----------------------------- *)
None == << >>
Some(v) == << v >>
IsSome(o) == Len(o) = 1
Unwrap(o) == o[1]

(* ------------------------------- usize --------------------------------- *)
\* a < b on usize values in the two's complement reading
ULt(a, b) ==
    IF a >= 0 /\ b >= 0 THEN a < b
    ELSE IF a >= 0 THEN TRUE
    ELSE IF b >= 0 THEN FALSE
    ELSE a < b
UGe(a, b) == ~ULt(a, b)
\* a valid index of the vector items
InBounds(items, i) == i >= 0 /\ i < Len(items)

(* ------------------------------ compute -------------------------------- *)
\* usize::MAX in the two's complement reading
UsizeMax == 0 - 1
CastUsize_Wrapping(num, den) ==
    IF num < 0 THEN UsizeMax
    ELSE IF den = 0 THEN (IF num > 0 THEN UsizeMax ELSE 0)
    ELSE num \div den
CastUsize_RoundUp(num, den) ==
    IF num < 0 THEN 0
    ELSE IF den = 0 THEN (IF num > 0 THEN UsizeMax ELSE 0)
    ELSE (num + den - 1) \div den
\* f32 -> usize cast of the quotient num/den (den >= 0): truncation, 0 for
\* negative values and for NaN (0/0), usize::MAX for +infinity (num/0, num > 0)
CastUsize(num, den) ==
    IF num < 0 THEN 0
    ELSE IF den = 0 THEN (IF num > 0 THEN UsizeMax ELSE 0)
    ELSE num \div den
Max_First(a, b) == a
\* std::cmp::max on usize
Max(a, b) == IF UGe(a, b) THEN a ELSE b

\* compute(width, height, dimensions, line_height, margin) -> (columns, lines).
\* w, h are in sub-pixel units; dimensions, line_height and margin hold whole
\* numbers.  The quotients are formed over the common denominator SubPx*scale.
compute(w, h, dimensions, line_height, m) ==
    LET margin_x == m.x * dimensions.scale
        margin_spaces == m.top_y + m.bottom_y
        lines_num == h - Px(margin_spaces * dimensions.scale)
        lines_den == Px(dimensions.height * line_height)
        visible_lines == Max(CastUsize(lines_num, lines_den), MIN_LINES)
        cols_num == w - Px(margin_x * dimensions.scale)
        cols_den == Px(dimensions.width)
        visible_columns == Max(CastUsize(cols_num, cols_den), MIN_COLS)
    IN  << visible_columns, visible_lines >>

(* -------------------------- ContextDimension --------------------------- *)
update(d) ==
    LET cl == compute(d.width, d.height, d.dimension, 1, d.margin)
    IN  [d EXCEPT !.columns = cl[1], !.lines = cl[2]]

build(w, h, dimension, line_height, m) ==
    LET cl == compute(w, h, dimension, line_height, m)
    IN  [width |-> w, height |-> h, columns |-> cl[1], lines |-> cl[2],
         dimension |-> dimension, margin |-> m]

update_width(d, w) == update([d EXCEPT !.width = w])
update_height(d, h) == update([d EXCEPT !.height = h])
\* ContextDimension::update_margin and ContextDimension::update_dimensions
dimension_update_margin_NoUpdate(d, m) == [d EXCEPT !.margin = m]
dimension_update_margin(d, m) == update([d EXCEPT !.margin = m])
dimension_update_dimensions(d, dimensions) ==
    update([d EXCEPT !.dimension = dimensions])

(* --------------------------- ContextGridItem --------------------------- *)
\* the size a terminal session holds after terminal.resize(dimension): the
\* columns() and screen_lines() of the Dimensions it is given
SessionSize(d) == [columns |-> d.columns, screen_lines |-> d.lines]

\* Context<T> as far as the grid reads it: rich_text_id, dimension and the
\* terminal session, which a caller hands over sized to the dimension
Context(id, d) ==
    [rich_text_id |-> id, dimension |-> d, terminal |-> SessionSize(d)]

\* terminal.lock(), terminal.resize(dimension), drop(terminal) and
\* messenger.send_resize(winsize) of one context, as to their effect on it:
\* the session takes the size of the context's dimension; the result of
\* send_resize is dropped
ResizeSession(val) == [val EXCEPT !.terminal = SessionSize(val.dimension)]

ContextGridItem_new(context) == [val |-> context, right |-> None, down |-> None]

DefaultMargin == [x |-> 0, top_y |-> 0, bottom_y |-> 0]
GridMargin == [x |-> 10, top_y |-> 20, bottom_y |-> 20]
Cell == [scale |-> CellScale, width |-> CellWidth, height |-> CellHeight]
InitialDimension == build(Px(InitialWidth), Px(InitialHeight), Cell, 1, DefaultMargin)

(* ------------------------------ ContextGrid ---------------------------- *)
\* self.inner[i], i a valid index
At(items, i) == items[i + 1]
Indices(items) == 0 .. (Len(items) - 1)
\* Vec::remove(index), index a valid index
VecRemove(items, index) ==
    SubSeq(items, 1, index) \o SubSeq(items, index + 2, Len(items))
Min(S) == CHOOSE x \in S : \A y \in S : x <= y

\* ContextGrid::new: one item, current 0, width/height of the context
ContextGrid_new_PaneMargin(context, m) ==
    [inner |-> << ContextGridItem_new(
                     [context EXCEPT !.dimension.margin = m]) >>,
     current |-> 0,
     margin |-> m,
     width |-> context.dimension.width,
     height |-> context.dimension.height]

ContextGrid_new(context, m) ==
    [inner |-> << ContextGridItem_new(context) >>,
     current |-> 0,
     margin |-> m,
     width |-> context.dimension.width,
     height |-> context.dimension.height]

\* self.inner.len() - 1 is a usize subtraction: on an empty vector it panics
\* in a build with overflow checks and wraps to usize::MAX otherwise
LenMinusOne(items) == Len(items) - 1

\* select_next_split: result [panic, current]
select_next_split(items, cur, checks) ==
    IF Len(items) = 1 THEN [panic |-> FALSE, current |-> cur]
    ELSE IF Len(items) = 0 /\ checks THEN [panic |-> TRUE, current |-> cur]
    ELSE IF UGe(cur, LenMinusOne(items)) THEN [panic |-> FALSE, current |-> 0]
    ELSE [panic |-> FALSE, current |-> cur + 1]

\* select_prev_split: result [panic, current]
select_prev_split(items, cur, checks) ==
    IF Len(items) = 1 THEN [panic |-> FALSE, current |-> cur]
    ELSE IF cur = 0
         THEN IF Len(items) = 0 /\ checks
              THEN [panic |-> TRUE, current |-> cur]
              ELSE [panic |-> FALSE, current |-> LenMinusOne(items)]
         ELSE [panic |-> FALSE, current |-> cur - 1]

\* remove_index: every pointer greater than index is decremented, then the
\* item at index is removed
ShiftPointer_Kept(o, index) == o

ShiftPointer(o, index) ==
    IF IsSome(o) /\ Unwrap(o) > index THEN Some(Unwrap(o) - 1) ELSE o

\* remove_index with the loop's second test left out: down pointers keep
\* their values
remove_index_RightOnly(items, index) ==
    VecRemove([n \in DOMAIN items |->
                  [items[n] EXCEPT !.right = ShiftPointer(@, index)]],
              index)

remove_index(items, index) ==
    VecRemove([n \in DOMAIN items |->
                  [items[n] EXCEPT !.right = ShiftPointer(@, index),
                                   !.down = ShiftPointer(@, index)]],
              index)

\* the scan at the head of remove_current: the first item, in array order,
\* whose right (tested first) or down pointer equals current;
\* None, or Some of <<is_right, index>>
parent_context(items, cur) ==
    LET hits == {i \in Indices(items) :
                    \/ At(items, i).right = Some(cur)
                    \/ At(items, i).down = Some(cur)}
    IN  IF hits = {} THEN None
        ELSE LET index == Min(hits)
             IN  Some(<< At(items, index).right = Some(cur), index >>)

\* InheritPointer without the clearing assignment: the parent keeps its
\* pointer when the removed item has none on that axis
InheritPointer_NotCleared(parent_pointer, current_pointer) ==
    IF IsSome(current_pointer) THEN current_pointer ELSE parent_pointer

InheritPointer_Dropped(parent_pointer, current_pointer) == None

\* the parent's pointer on the axis of the removed item: cleared, then set to
\* the removed item's pointer on that axis when it has one
InheritPointer(parent_pointer, current_pointer) ==
    IF IsSome(current_pointer) THEN current_pointer ELSE None

ParentWidth_NoPadding(parent_width, old_width) == parent_width + old_width

\* the width the parent of a removed right child takes
ParentWidth(parent_width, old_width) == parent_width + old_width + Px(PADDING)

\* the branch of remove_current taken when a parent was found
RemoveWithParent(items, cur, is_right, parent_index) ==
    LET old == cur
        old_width == At(items, old).val.dimension.width
        old_height == At(items, old).val.dimension.height
        parent == At(items, parent_index)
        grown ==
            IF is_right
            THEN [parent EXCEPT
                    !.val = ResizeSession([@ EXCEPT !.dimension =
                        update_width(@, ParentWidth(@.width, old_width))]),
                    !.right = InheritPointer(@, At(items, cur).right)]
            ELSE [parent EXCEPT
                    !.val = ResizeSession([@ EXCEPT !.dimension =
                        update_height(@, @.height + old_height)]),
                    !.down = InheritPointer(@, At(items, cur).down)]
        spliced == [items EXCEPT ![parent_index + 1] = grown]
    IN  [panic |-> FALSE,
         inner |-> remove_index(spliced, old),
         current |-> parent_index]

\* the branches of remove_current taken when the focused item has no parent
RemoveWithoutParent(items, cur, checks) ==
    LET old == cur
        old_width == At(items, old).val.dimension.width
        old_height == At(items, old).val.dimension.height
        right == At(items, old).right
        down == At(items, old).down
    IN  IF IsSome(right)
        THEN LET right_val == Unwrap(right)
             IN  IF ~InBounds(items, right_val)
                 THEN [panic |-> TRUE, inner |-> items, current |-> cur]
                 ELSE [panic |-> FALSE,
                       inner |-> remove_index(
                           [items EXCEPT ![right_val + 1].val =
                               ResizeSession([@ EXCEPT !.dimension =
                                   update_width(@, @.width + old_width
                                                       + Px(PADDING))])],
                           old),
                       current |-> right_val - 1]
        ELSE IF IsSome(down)
        THEN LET down_val == Unwrap(down)
             IN  IF ~InBounds(items, down_val)
                 THEN [panic |-> TRUE, inner |-> items, current |-> cur]
                 ELSE [panic |-> FALSE,
                       inner |-> remove_index(
                           [items EXCEPT ![down_val + 1].val =
                               ResizeSession([@ EXCEPT !.dimension =
                                   update_height(@, @.height + old_height)])],
                           old),
                       current |-> down_val - 1]
        ELSE LET prev == select_prev_split(items, cur, checks)
             IN  [panic |-> prev.panic,
                  inner |-> IF prev.panic THEN items ELSE remove_index(items, old),
                  current |-> prev.current]

\* remove_current: result [panic, inner, current].  self.inner[old] panics
\* when current is not a valid index.
remove_current(items, cur, checks) ==
    LET parent == parent_context(items, cur)
    IN  IF ~InBounds(items, cur)
        THEN [panic |-> TRUE, inner |-> items, current |-> cur]
        ELSE IF IsSome(parent)
        THEN RemoveWithParent(items, cur, Unwrap(parent)[1], Unwrap(parent)[2])
        ELSE RemoveWithoutParent(items, cur, checks)

\* x / 2.0 on a sub-pixel quantity
Half_Whole(x) == x
Half(x) == x \div 2

\* split_right without the assignment of old_right to the new item: the
\* focused pane's former right neighbour is dropped
split_right_NoInherit(items, cur, context) ==
    IF ~InBounds(items, cur)
    THEN [panic |-> TRUE, inner |-> items, current |-> cur]
    ELSE
    LET new_grid_item_width == Half(At(items, cur).val.dimension.width)
        shrunk == [items EXCEPT ![cur + 1].val =
                      ResizeSession([@ EXCEPT !.dimension =
                          update_width(@, new_grid_item_width - Px(PADDING))])]
        new_context ==
            [ContextGridItem_new(context) EXCEPT !.val =
                ResizeSession([@ EXCEPT !.dimension =
                    update_width(@, new_grid_item_width - Px(PADDING))])]
        pushed == Append(shrunk, new_context)
        new_current == Len(pushed) - 1
    IN  [panic |-> FALSE,
         inner |-> [pushed EXCEPT ![cur + 1].right = Some(new_current)],
         current |-> new_current]

\* split_right: result [panic, inner, current].  self.inner[self.current]
\* panics when current is not a valid index.
split_right(items, cur, context) ==
    IF ~InBounds(items, cur)
    THEN [panic |-> TRUE, inner |-> items, current |-> cur]
    ELSE
    LET old_right == At(items, cur).right
        old_grid_item_width == At(items, cur).val.dimension.width
        new_grid_item_width == Half(old_grid_item_width)
        shrunk == [items EXCEPT ![cur + 1].val =
                      ResizeSession([@ EXCEPT !.dimension =
                          update_width(@, new_grid_item_width - Px(PADDING))])]
        new_context ==
            [ContextGridItem_new(context) EXCEPT !.val =
                ResizeSession([@ EXCEPT !.dimension =
                    update_width(@, new_grid_item_width - Px(PADDING))])]
        pushed == Append(shrunk, new_context)
        new_current == Len(pushed) - 1
    IN  [panic |-> FALSE,
         inner |-> [pushed EXCEPT ![new_current + 1].right = old_right,
                                  ![cur + 1].right = Some(new_current)],
         current |-> new_current]

\* split_down: result [panic, inner, current]
split_down(items, cur, context) ==
    IF ~InBounds(items, cur)
    THEN [panic |-> TRUE, inner |-> items, current |-> cur]
    ELSE
    LET old_down == At(items, cur).down
        old_grid_item_height == At(items, cur).val.dimension.height
        new_grid_item_height == Half(old_grid_item_height)
        shrunk == [items EXCEPT ![cur + 1].val =
                      ResizeSession([@ EXCEPT !.dimension =
                          update_height(@, new_grid_item_height - Px(PADDING * 2))])]
        new_context ==
            [ContextGridItem_new(context) EXCEPT !.val =
                ResizeSession([@ EXCEPT !.dimension =
                    update_height(@, new_grid_item_height - Px(PADDING * 2))])]
        pushed == Append(shrunk, new_context)
        new_current == Len(pushed) - 1
    IN  [panic |-> FALSE,
         inner |-> [pushed EXCEPT ![new_current + 1].down = old_down,
                                  ![cur + 1].down = Some(new_current)],
         current |-> new_current]

\* resize_context: result [vector, ret]; vector maps 1-based positions to
\* <<width delta, height delta>>, ret is the returned pair
RECURSIVE resize_context(_, _, _, _, _)
resize_context(items, vector, index, available_width, available_height) ==
    IF ~InBounds(items, index)
    THEN [vector |-> vector, ret |-> << available_width, available_height >>]
    ELSE
    LET item == At(items, index)
        r == IF IsSome(item.right)
             THEN resize_context(items, vector, Unwrap(item.right),
                                 Half(available_width), available_height)
             ELSE [vector |-> vector,
                   ret |-> << available_width, available_height >>]
        current_available_width ==
            IF IsSome(item.right) THEN r.ret[1] ELSE available_width
        d == IF IsSome(item.down)
             THEN resize_context(items, r.vector, Unwrap(item.down),
                                 available_width, Half(available_height))
             ELSE [vector |-> r.vector,
                   ret |-> << available_width, available_height >>]
        current_available_heigth ==
            IF IsSome(item.down) THEN d.ret[2] ELSE available_height
        own == << current_available_width, current_available_heigth >>
    IN  [vector |-> [d.vector EXCEPT ![index + 1] = own], ret |-> own]

resize_SizeNotStored(items, w, h, new_width, new_height) ==
    LET width_difference == new_width - w
        height_difference == new_height - h
        zero == [n \in DOMAIN items |-> << 0, 0 >>]
        vector == resize_context(items, zero, 0,
                                 width_difference, height_difference).vector
    IN  [inner |-> [n \in DOMAIN items |->
                       [items[n] EXCEPT !.val =
                           ResizeSession([@ EXCEPT !.dimension =
                               update_height(
                                   update_width(@, @.width + vector[n][1]),
                                   @.height + vector[n][2])])]],
         width |-> w,
         height |-> h]

\* resize: result [inner, width, height]
resize(items, w, h, new_width, new_height) ==
    LET width_difference == new_width - w
        height_difference == new_height - h
        zero == [n \in DOMAIN items |-> << 0, 0 >>]
        vector == resize_context(items, zero, 0,
                                 width_difference, height_difference).vector
    IN  [inner |-> [n \in DOMAIN items |->
                       [items[n] EXCEPT !.val =
                           ResizeSession([@ EXCEPT !.dimension =
                               update_height(
                                   update_width(@, @.width + vector[n][1]),
                                   @.height + vector[n][2])])]],
         width |-> new_width,
         height |-> new_height]

\* ContextGrid::update_margin: result [inner, margin]
update_margin(items, padding) ==
    LET new_margin == [x |-> padding[1], top_y |-> padding[2],
                       bottom_y |-> padding[3]]
    IN  [inner |-> [n \in DOMAIN items |->
                       [items[n] EXCEPT !.val.dimension =
                           dimension_update_margin(@, new_margin)]],
         margin |-> new_margin]

\* ContextGrid::update_dimensions: the new vector; layout maps a
\* rich_text_id to the dimensions of its layout
update_dimensions(items, layout) ==
    [n \in DOMAIN items |->
        [items[n] EXCEPT !.val.dimension =
            dimension_update_dimensions(@, layout[items[n].val.rich_text_id])]]

\* the rich_text_ids of the items
Ids(items) == {items[n].val.rich_text_id : n \in DOMAIN items}

\* Delta<f32> of whole pixels in sub-pixel units
DeltaPx(m) == [x |-> Px(m.x), top_y |-> Px(m.top_y), bottom_y |-> Px(m.bottom_y)]

RichText(id, position) == [kind |-> "RichText", id |-> id, position |-> position]
Rect(position, size) == [kind |-> "Rect", position |-> position, size |-> size]

\* new_margin of the right branch: the position the right item is drawn at
RightMargin(d, m) ==
    [m EXCEPT !.x = m.x + Px(PADDING) + (d.width \div d.dimension.scale)]

RightSeparator_NoPadding(d, new_margin) ==
    Rect(<< new_margin.x, new_margin.top_y >>,
         << Px(2) \div d.dimension.scale, d.height >>)

\* the Rect pushed before the right item
RightSeparator(d, new_margin) ==
    Rect(<< new_margin.x - Px(PADDING), new_margin.top_y >>,
         << Px(2) \div d.dimension.scale, d.height >>)

\* new_margin of the down branch: the position the down item is drawn at
DownMargin(d, m) ==
    [m EXCEPT !.top_y = m.top_y + Px(PADDING) + (d.height \div d.dimension.scale)]

DownSeparator_NoPadding(d, new_margin) ==
    Rect(<< new_margin.x, new_margin.top_y >>,
         << d.width, Px(2) \div d.dimension.scale >>)

\* the Rect pushed before the down item
DownSeparator(d, new_margin) ==
    Rect(<< new_margin.x, new_margin.top_y - Px(PADDING) >>,
         << d.width, Px(2) \div d.dimension.scale >>)

\* plot_objects: the objects pushed for the item at index and the items its
\* pointers lead to; m is the drawing position, in sub-pixel units
RECURSIVE plot_objects(_, _, _)
plot_objects(items, index, m) ==
    IF ~InBounds(items, index) THEN << >>
    ELSE
    LET item == At(items, index)
        d == item.val.dimension
        own == << RichText(item.val.rich_text_id, << m.x, m.top_y >>) >>
        right_margin == RightMargin(d, m)
        right_part ==
            IF IsSome(item.right)
            THEN << RightSeparator(d, right_margin) >>
                 \o plot_objects(items, Unwrap(item.right), right_margin)
            ELSE << >>
        down_margin == DownMargin(d, m)
        down_part ==
            IF IsSome(item.down)
            THEN << DownSeparator(d, down_margin) >>
                 \o plot_objects(items, Unwrap(item.down), down_margin)
            ELSE << >>
    IN  own \o right_part \o down_part

objects_PaneMargin(items, m) ==
    IF Len(items) = 0 THEN << >>
    ELSE IF Len(items) = 1
    THEN << RichText(items[1].val.rich_text_id,
                     << Px(items[1].val.dimension.margin.x),
                        Px(items[1].val.dimension.margin.top_y) >>) >>
    ELSE plot_objects(items, 0, DeltaPx(m))

\* objects: nothing for an empty grid, one RichText at the grid margin for a
\* single item, plot_objects from index 0 otherwise
objects(items, m) ==
    IF Len(items) = 0 THEN << >>
    ELSE IF Len(items) = 1
    THEN << RichText(items[1].val.rich_text_id, << Px(m.x), Px(m.top_y) >>) >>
    ELSE plot_objects(items, 0, DeltaPx(m))

\* current_context_with_computed_dimension: result [panic, val, margin], the
\* margin in sub-pixel units.  self.inner[self.current] panics when current
\* is not a valid index; the margin is self.margin unless a RichText of the
\* focused context is among the objects, and then x and top_y are taken from
\* the first such RichText.
current_context_with_computed_dimension(items, cur, m) ==
    IF ~InBounds(items, cur)
    THEN [panic |-> TRUE, val |-> << >>, margin |-> DeltaPx(m)]
    ELSE
    LET objs == objects(items, m)
        rich_text_id == At(items, cur).val.rich_text_id
        hits == {n \in DOMAIN objs :
                    objs[n].kind = "RichText" /\ objs[n].id = rich_text_id}
    IN  [panic |-> FALSE,
         val |-> At(items, cur).val,
         margin |->
            IF hits = {} THEN DeltaPx(m)
            ELSE LET obj == objs[Min(hits)]
                 IN  [x |-> obj.position[1] + Px(PADDING),
                      top_y |-> obj.position[2] + Px(PADDING),
                      bottom_y |-> Px(m.bottom_y)]]

(* ------------------------------ SugarState ----------------------------- *)
\* SugarState of the renderer: latest_change, objects, rich_texts and, of
\* layout, the cell size layout.dimensions (width and height in 1/SubPx
\* pixel).  The compositors hold no field that the methods below read back.
\* layout.resize(), layout.rescale(), layout.update() and the font size
\* methods leave layout.dimensions to the caller, which sets it itself.

\* SugarTreeDiff
SugarTreeDiff == {"Different", "Repaint"}

\* the layout that Sugarloaf passes to new(): no cell size yet
InitialLayout == [dimensions |-> [width |-> 0, height |-> 0]]

\* layout.dimensions.height = 0.0; layout.dimensions.width = 0.0
ZeroDimensions(layout) ==
    [layout EXCEPT !.dimensions.height = 0, !.dimensions.width = 0]

\* SugarState::new
SugarState_new(initial_layout) ==
    [layout |-> initial_layout,
     objects |-> << >>,
     rich_texts |-> << >>,
     latest_change |-> "Repaint"]

\* compute_layout_resize
compute_layout_resize(s) ==
    [s EXCEPT !.latest_change = "Repaint"]

\* compute_layout_rescale
compute_layout_rescale(s) ==
    [s EXCEPT !.layout = ZeroDimensions(s.layout),
              !.latest_change = "Repaint"]

\* compute_layout_font_size(operation); changed is what the font size method
\* of the layout returns for operation 0, 1 or 2
compute_layout_font_size(s, operation, changed) ==
    LET should_update == IF operation \in {0, 1, 2} THEN changed ELSE FALSE
    IN  IF should_update
        THEN [s EXCEPT !.layout = ZeroDimensions(s.layout),
                       !.latest_change = "Repaint"]
        ELSE s

set_fonts_NoRepaint(s) ==
    [s EXCEPT !.layout = ZeroDimensions(s.layout)]

\* set_fonts
set_fonts(s) ==
    [s EXCEPT !.layout = ZeroDimensions(s.layout),
              !.latest_change = "Repaint"]

\* set_font_features
set_font_features(s) ==
    [s EXCEPT !.latest_change = "Repaint"]

\* clean_screen
clean_screen(s) ==
    [s EXCEPT !.objects = << >>]

\* the loop of compute_objects: the RichText entries of new_objects, in order
RECURSIVE RichTextsOf(_)
RichTextsOf(new_objects) ==
    IF new_objects = << >> THEN << >>
    ELSE (IF Head(new_objects).kind = "RichText"
          THEN << Head(new_objects) >> ELSE << >>)
         \o RichTextsOf(Tail(new_objects))

compute_objects_Append(s, new_objects) ==
    [s EXCEPT !.objects = new_objects,
              !.rich_texts = s.rich_texts \o RichTextsOf(new_objects)]

\* compute_objects
compute_objects(s, new_objects) ==
    [s EXCEPT !.objects = new_objects,
              !.rich_texts = RichTextsOf(new_objects)]

\* compute_dimensions; dimension is what advance_brush.dimensions() returns,
\* << >> for None
compute_dimensions(s, dimension) ==
    IF s.latest_change # "Repaint" THEN s
    ELSE IF dimension = << >> THEN s
    ELSE LET d == dimension[1]
             h == IF d.height # s.layout.dimensions.height
                  THEN d.height ELSE s.layout.dimensions.height
             w == IF d.width # s.layout.dimensions.width
                  THEN d.width ELSE s.layout.dimensions.width
         IN  [s EXCEPT !.layout.dimensions.height = h,
                       !.layout.dimensions.width = w]

compute_changes_BothEmpty(s) ==
    IF s.layout.dimensions.width = 0 /\ s.layout.dimensions.height = 0
    THEN [s EXCEPT !.latest_change = "Repaint"]
    ELSE IF s.latest_change = "Repaint"
         THEN [s EXCEPT !.latest_change = "Different"]
         ELSE s

\* compute_changes
compute_changes(s) ==
    IF s.layout.dimensions.width = 0 \/ s.layout.dimensions.height = 0
    THEN [s EXCEPT !.latest_change = "Repaint"]
    ELSE IF s.latest_change = "Repaint"
         THEN [s EXCEPT !.latest_change = "Different"]
         ELSE s

(* ------------------------------- the engine ---------------------------- *)
\* Bookkeeping of the run, not fields of the engine: splits, removes and
\* resizes count the calls made, updates those of update_margin and
\* update_dimensions; removes_le_splits tells that after every call
\* so far removes <= splits held; last_op names the last call and pre holds
\* the engine's fields before it ran.
Snapshot == [inner |-> inner, current |-> current,
             width |-> width, height |-> height]

\* the contexts a caller hands to split_right / split_down: a fresh
\* rich_text_id and the dimension of the initial context (as the tests do)
NewContexts(id) == {Context(id, InitialDimension)}

\* the rich_text_ids a run hands out: 0 to new(), then one per split
SessionIds == 0 .. MaxSplits

StrayOk(items, c) == c >= 0 - 1 - MaxStray /\ c <= Len(items) + MaxStray

Init ==
    LET grid == ContextGrid_new(Context(0, InitialDimension), GridMargin)
    IN  /\ inner = grid.inner
        /\ current = grid.current
        /\ width = grid.width
        /\ height = grid.height
        /\ margin = grid.margin
        /\ panicked = FALSE
        /\ splits = 0
        /\ removes = 0
        /\ removes_le_splits = TRUE
        /\ resizes = 0
        /\ last_op = "new"
        /\ pre = [inner |-> grid.inner, current |-> grid.current,
                  width |-> grid.width, height |-> grid.height]
        /\ updates = 0
        /\ args = << >>
        /\ result = << >>
        /\ pc = 0
        /\ queue = << >>
        /\ pending = [inner |-> grid.inner, current |-> grid.current,
                      width |-> grid.width, height |-> grid.height]
        /\ locks = [id \in SessionIds |-> "free"]
        /\ send_failed = FALSE
        /\ state = SugarState_new(InitialLayout)
        /\ call = [op |-> "new"]
        /\ before = state

SelectNextSplit ==
    /\ ~panicked
    /\ \E checks \in BOOLEAN :
         LET r == select_next_split(inner, current, checks)
         IN
           /\ StrayOk(inner, r.current)
           /\ current' = r.current
           /\ panicked' = r.panic
    /\ last_op' = "select_next_split"
    /\ pre' = Snapshot
    /\ UNCHANGED << updates, computevars, lockvars, sugarvars >>
    /\ UNCHANGED << inner, width, height, margin,
                    splits, removes, resizes, removes_le_splits >>

SelectPrevSplit ==
    /\ ~panicked
    /\ \E checks \in BOOLEAN :
         LET r == select_prev_split(inner, current, checks)
         IN
           /\ StrayOk(inner, r.current)
           /\ current' = r.current
           /\ panicked' = r.panic
    /\ last_op' = "select_prev_split"
    /\ pre' = Snapshot
    /\ UNCHANGED << updates, computevars, lockvars, sugarvars >>
    /\ UNCHANGED << inner, width, height, margin,
                    splits, removes, resizes, removes_le_splits >>

SplitRight ==
    /\ ~panicked
    /\ splits < MaxSplits
    /\ \E context \in NewContexts(splits + 1) :
          LET r == split_right(inner, current, context)
          IN  /\ inner' = r.inner
              /\ current' = r.current
              /\ panicked' = r.panic
    /\ splits' = splits + 1
    /\ last_op' = "split_right"
    /\ pre' = Snapshot
    /\ UNCHANGED << updates, computevars, lockvars, sugarvars >>
    /\ UNCHANGED << width, height, margin, removes, resizes,
                    removes_le_splits >>

SplitDown ==
    /\ ~panicked
    /\ splits < MaxSplits
    /\ \E context \in NewContexts(splits + 1) :
          LET r == split_down(inner, current, context)
          IN  /\ inner' = r.inner
              /\ current' = r.current
              /\ panicked' = r.panic
    /\ splits' = splits + 1
    /\ last_op' = "split_down"
    /\ pre' = Snapshot
    /\ UNCHANGED << updates, computevars, lockvars, sugarvars >>
    /\ UNCHANGED << width, height, margin, removes, resizes,
                    removes_le_splits >>

RemoveCurrent ==
    /\ ~panicked
    /\ \E checks \in BOOLEAN :
         LET r == remove_current(inner, current, checks)
         IN
           /\ inner' = r.inner
           /\ current' = r.current
           /\ panicked' = r.panic
    /\ removes' = removes + 1
    /\ removes_le_splits' = (removes_le_splits /\ removes + 1 <= splits)
    /\ last_op' = "remove_current"
    /\ pre' = Snapshot
    /\ UNCHANGED << updates, computevars, lockvars, sugarvars >>
    /\ UNCHANGED << width, height, margin, splits, resizes >>

Resize ==
    /\ ~panicked
    /\ resizes < MaxResizes
    /\ \E size \in ResizeSizes :
          LET r == resize(inner, width, height, Px(size[1]), Px(size[2]))
          IN  /\ inner' = r.inner
              /\ width' = r.width
              /\ height' = r.height
    /\ resizes' = resizes + 1
    /\ last_op' = "resize"
    /\ pre' = Snapshot
    /\ UNCHANGED << updates, computevars, lockvars, sugarvars >>
    /\ UNCHANGED << current, margin, panicked, splits, removes,
                    removes_le_splits >>

Next ==
    \/ SelectNextSplit
    \/ SelectPrevSplit
    \/ SplitRight
    \/ SplitDown
    \/ RemoveCurrent
    \/ Resize

Spec == Init /\ [][Next]_vars

(* --------------------- margin and cell size updates -------------------- *)
\* the paddings handed to update_margin
Paddings == {<< 10, 20, 20 >>, << 0, 0, 0 >>}
\* the cell sizes of the layouts the renderer reports: one for all layouts,
\* as after a change of font
Layouts ==
    {[id \in Ids(inner) |-> dimensions] :
        dimensions \in {Cell, [scale |-> 2, width |-> 18, height |-> 9]}}

UpdateMargin ==
    /\ ~panicked
    /\ updates < MaxUpdates
    /\ \E padding \in Paddings :
          LET r == update_margin(inner, padding)
          IN  /\ inner' = r.inner
              /\ margin' = r.margin
    /\ last_op' = "update_margin"
    /\ pre' = Snapshot
    /\ updates' = updates + 1
    /\ UNCHANGED << computevars, lockvars, sugarvars >>
    /\ UNCHANGED << current, width, height, panicked, splits, removes, resizes,
                    removes_le_splits >>

UpdateDimensions ==
    /\ ~panicked
    /\ updates < MaxUpdates
    /\ \E layout \in Layouts :
          inner' = update_dimensions(inner, layout)
    /\ last_op' = "update_dimensions"
    /\ pre' = Snapshot
    /\ updates' = updates + 1
    /\ UNCHANGED << computevars, lockvars, sugarvars >>
    /\ UNCHANGED << current, width, height, margin, panicked, splits, removes,
                    resizes, removes_le_splits >>

\* the handlers of Spec, in runs of at most MaxCalls split, remove and resize
\* calls
BoundedStep == splits + removes + resizes < MaxCalls /\ Next

NextUpdates ==
    \/ BoundedStep
    \/ UpdateMargin
    \/ UpdateDimensions

SpecUpdates == Init /\ [][NextUpdates]_vars

(* ---------------------- the handlers step by step --------------------- *)
\* The engine's own fields are reached through &mut self and change in one
\* step when a handler is entered; what a handler does to the shared
\* sessions (lock, resize, drop) and to the messengers (send_resize) it does
\* step by step, session after session, while the parser threads lock and
\* unlock their sessions.

Steps_NoDrop == << "lock", "resize", "send_resize" >>
Steps_SendBeforeDrop == << "lock", "resize", "send_resize", "drop" >>

\* what a handler does for one context: terminal.lock(), terminal.resize(),
\* drop(terminal), messenger.send_resize()
Steps == << "lock", "resize", "drop", "send_resize" >>

SendResult_Unwrap(ok) == [panic |-> ~ok]

\* let _ = messenger.send_resize(winsize): the Result is dropped
SendResult(ok) == [panic |-> FALSE]

\* the contexts split_right and split_down lock: the focused one, then the
\* new one
split_targets(items, cur, context) ==
    IF InBounds(items, cur)
    THEN << At(items, cur).val.rich_text_id, context.rich_text_id >>
    ELSE << >>

\* the context remove_current locks: the parent when there is one, else the
\* right item, else the down item
remove_current_targets(items, cur) ==
    LET parent == parent_context(items, cur)
    IN  IF ~InBounds(items, cur) THEN << >>
        ELSE IF IsSome(parent)
        THEN << At(items, Unwrap(parent)[2]).val.rich_text_id >>
        ELSE IF IsSome(At(items, cur).right)
        THEN (IF InBounds(items, Unwrap(At(items, cur).right))
              THEN << At(items, Unwrap(At(items, cur).right)).val.rich_text_id >>
              ELSE << >>)
        ELSE IF IsSome(At(items, cur).down)
        THEN (IF InBounds(items, Unwrap(At(items, cur).down))
              THEN << At(items, Unwrap(At(items, cur).down)).val.rich_text_id >>
              ELSE << >>)
        ELSE << >>

\* the contexts resize locks: all, in array order
resize_targets(items) == [n \in DOMAIN items |-> items[n].val.rich_text_id]

\* the session of every context of items, by rich_text_id
SessionsOf(items) ==
    [id \in Ids(items) |->
        items[CHOOSE n \in DOMAIN items : items[n].val.rich_text_id = id]
            .val.terminal]

\* items with the sessions of the targets still as in sessions
Outstanding(items, targets, sessions) ==
    [n \in DOMAIN items |->
        IF \E k \in DOMAIN targets : targets[k] = items[n].val.rich_text_id
        THEN [items[n] EXCEPT !.val.terminal = sessions[items[n].val.rich_text_id]]
        ELSE items[n]]

\* a handler is entered: r holds the fields the engine has when it returns,
\* targets the contexts the handler locks, sessions their sessions so far
Enter(op, r, targets, sessions) ==
    /\ pc = 0
    /\ ~panicked
    /\ splits + removes + resizes < MaxCalls
    /\ last_op' = op
    /\ pre' = Snapshot
    /\ panicked' = r.panic
    /\ current' = r.current
    /\ width' = r.width
    /\ height' = r.height
    /\ pending' = [inner |-> r.inner, current |-> r.current,
                   width |-> r.width, height |-> r.height]
    /\ send_failed' = FALSE
    /\ IF r.panic \/ targets = << >>
       THEN /\ inner' = r.inner
            /\ queue' = << >>
            /\ pc' = 0
       ELSE /\ inner' = Outstanding(r.inner, targets, sessions)
            /\ queue' = targets
            /\ pc' = 1
    /\ UNCHANGED << margin, locks, updates, computevars, sugarvars >>

EnterSplitRight ==
    /\ splits < MaxSplits
    /\ \E context \in NewContexts(splits + 1) :
          LET r == split_right(inner, current, context)
          IN  Enter("split_right",
                    [panic |-> r.panic, inner |-> r.inner, current |-> r.current,
                     width |-> width, height |-> height],
                    split_targets(inner, current, context),
                    SessionsOf(Append(inner, ContextGridItem_new(context))))
    /\ splits' = splits + 1
    /\ UNCHANGED << removes, resizes, removes_le_splits >>

EnterSplitDown ==
    /\ splits < MaxSplits
    /\ \E context \in NewContexts(splits + 1) :
          LET r == split_down(inner, current, context)
          IN  Enter("split_down",
                    [panic |-> r.panic, inner |-> r.inner, current |-> r.current,
                     width |-> width, height |-> height],
                    split_targets(inner, current, context),
                    SessionsOf(Append(inner, ContextGridItem_new(context))))
    /\ splits' = splits + 1
    /\ UNCHANGED << removes, resizes, removes_le_splits >>

EnterRemoveCurrent ==
    /\ \E checks \in BOOLEAN :
          LET r == remove_current(inner, current, checks)
          IN  Enter("remove_current",
                    [panic |-> r.panic, inner |-> r.inner, current |-> r.current,
                     width |-> width, height |-> height],
                    remove_current_targets(inner, current),
                    SessionsOf(inner))
    /\ removes' = removes + 1
    /\ removes_le_splits' = (removes_le_splits /\ removes + 1 <= splits)
    /\ UNCHANGED << splits, resizes >>

EnterResize ==
    /\ resizes < MaxResizes
    /\ \E size \in ResizeSizes :
          LET r == resize(inner, width, height, Px(size[1]), Px(size[2]))
          IN  Enter("resize",
                    [panic |-> FALSE, inner |-> r.inner, current |-> current,
                     width |-> r.width, height |-> r.height],
                    resize_targets(inner),
                    SessionsOf(inner))
    /\ resizes' = resizes + 1
    /\ UNCHANGED << splits, removes, removes_le_splits >>

\* select_next_split and select_prev_split touch no session
Select ==
    /\ pc = 0
    /\ (SelectNextSplit \/ SelectPrevSplit)

\* the position after the step at pc: the next step, or the first step for
\* the next context, or 0 when the handler returns
Advance ==
    IF pc < Len(Steps)
    THEN pc' = pc + 1 /\ queue' = queue
    ELSE /\ queue' = Tail(queue)
         /\ pc' = IF Len(queue) > 1 THEN 1 ELSE 0

engine_frame ==
    << current, width, height, margin, splits, removes, resizes,
       removes_le_splits, last_op, pre, updates, computevars, pending,
       sugarvars >>

\* terminal.lock(): waits while the parser thread holds the lock
Lock ==
    /\ pc > 0 /\ ~panicked
    /\ Steps[pc] = "lock"
    /\ locks[queue[1]] = "free"
    /\ locks' = [locks EXCEPT ![queue[1]] = "engine"]
    /\ Advance
    /\ UNCHANGED << inner, panicked, send_failed, engine_frame >>

\* terminal.resize::<ContextDimension>(dimension)
SessionResize ==
    /\ pc > 0 /\ ~panicked
    /\ Steps[pc] = "resize"
    /\ inner' = [n \in DOMAIN inner |->
                    IF inner[n].val.rich_text_id = queue[1]
                    THEN [inner[n] EXCEPT !.val = ResizeSession(@)]
                    ELSE inner[n]]
    /\ Advance
    /\ UNCHANGED << locks, panicked, send_failed, engine_frame >>

\* drop(terminal)
Drop ==
    /\ pc > 0 /\ ~panicked
    /\ Steps[pc] = "drop"
    /\ locks' = [locks EXCEPT ![queue[1]] = "free"]
    /\ Advance
    /\ UNCHANGED << inner, panicked, send_failed, engine_frame >>

\* let _ = messenger.send_resize(winsize): delivered, or an error when the
\* channel is closed
SendResize ==
    /\ pc > 0 /\ ~panicked
    /\ Steps[pc] = "send_resize"
    /\ \E ok \in BOOLEAN :
          /\ send_failed' = (send_failed \/ ~ok)
          /\ panicked' = SendResult(ok).panic
    /\ Advance
    /\ UNCHANGED << inner, locks, engine_frame >>

\* the parser thread of a pane's session takes the session's lock
ParserLock ==
    /\ \E id \in Ids(inner) \cap SessionIds :
          /\ locks[id] = "free"
          /\ locks' = [locks EXCEPT ![id] = "parser"]
    /\ UNCHANGED << inner, panicked, pc, queue, send_failed, engine_frame >>

\* ... and releases it
ParserUnlockOf(id) ==
    /\ locks[id] = "parser"
    /\ locks' = [locks EXCEPT ![id] = "free"]
    /\ UNCHANGED << inner, panicked, pc, queue, send_failed, engine_frame >>

ParserUnlock == \E id \in SessionIds : ParserUnlockOf(id)

NextLock ==
    \/ EnterSplitRight
    \/ EnterSplitDown
    \/ EnterRemoveCurrent
    \/ EnterResize
    \/ Select
    \/ Lock
    \/ SessionResize
    \/ Drop
    \/ SendResize
    \/ ParserLock
    \/ ParserUnlock

SpecLock == Init /\ [][NextLock]_vars

\* the steps of SpecLock, with at most MaxHandlers handlers started
NextLockFair ==
    /\ pc > 0 \/ splits + removes + resizes < MaxHandlers
    /\ NextLock

\* SpecLock with the scheduling the handlers run under: the control thread
\* keeps running, a thread that waits for a session's lock gets it once the
\* lock is free often enough, and every parser thread releases the lock it
\* holds
SpecLockFair ==
    /\ Init /\ [][NextLockFair]_vars
    /\ SF_vars(Lock)
    /\ WF_vars(SessionResize)
    /\ WF_vars(Drop)
    /\ WF_vars(SendResize)
    /\ \A id \in SessionIds : WF_vars(ParserUnlockOf(id))

(* ------------------------- compute on its own -------------------------- *)
\* arguments of compute: pane sizes down to zero and below (in sub-pixel
\* units), the cell metrics of the tests and cell metrics with width and
\* height 0, the default margin and the margin of the tests
ComputeArgs ==
    [width : {Px(0 - 4), 0, Px(1) \div 2, Px(36), Px(1200)},
     height : {Px(0 - 8), 0, Px(1) \div 2, Px(89), Px(800)},
     dimensions : {[scale |-> 2, width |-> 18, height |-> 9],
                   Cell,
                   [scale |-> 2, width |-> 0, height |-> 0]},
     line_height : {1, 2},
     margin : {DefaultMargin, GridMargin}]

\* either the engine as new() leaves it, no call of compute pending, or the
\* arguments of one call of compute
InitCompute ==
    LET grid == ContextGrid_new(Context(0, InitialDimension), GridMargin)
    IN  /\ inner = grid.inner
        /\ current = grid.current
        /\ width = grid.width
        /\ height = grid.height
        /\ margin = grid.margin
        /\ panicked = FALSE
        /\ splits = 0
        /\ removes = 0
        /\ removes_le_splits = TRUE
        /\ resizes = 0
        /\ last_op = "new"
        /\ pre = [inner |-> grid.inner, current |-> grid.current,
                  width |-> grid.width, height |-> grid.height]
        /\ updates = 0
        /\ args \in {<< >>} \cup {<< a >> : a \in ComputeArgs}
        /\ result = << >>
        /\ pc = 0
        /\ queue = << >>
        /\ pending = [inner |-> grid.inner, current |-> grid.current,
                      width |-> grid.width, height |-> grid.height]
        /\ locks = [id \in SessionIds |-> "free"]
        /\ send_failed = FALSE
        /\ state = SugarState_new(InitialLayout)
        /\ call = [op |-> "new"]
        /\ before = state

\* compute(width, height, dimensions, line_height, margin)
Compute ==
    /\ args # << >>
    /\ result = << >>
    /\ result' = << compute(args[1].width, args[1].height, args[1].dimensions,
                            args[1].line_height, args[1].margin) >>
    /\ UNCHANGED << inner, current, width, height, margin, panicked,
                    splits, removes, resizes, removes_le_splits, last_op, pre,
                    updates, args, lockvars, sugarvars >>

\* the calls the engine's handlers make, when no call of compute on its own
\* is pending
EngineStep == args = << >> /\ Next

NextCompute ==
    \/ EngineStep
    \/ Compute

SpecCompute == InitCompute /\ [][NextCompute]_vars

(* ---------------------------- SugarState calls ------------------------- *)
\* the objects a caller hands to compute_objects
SugarObjects ==
    { RichText(0, << 0, 0 >>), RichText(1, << 0, 0 >>),
      Rect(<< 0, 0 >>, << Px(2), Px(800) >>) }

RECURSIVE SeqsUpTo(_, _)
SeqsUpTo(S, n) ==
    IF n = 0 THEN { << >> }
    ELSE LET shorter == SeqsUpTo(S, n - 1)
         IN  shorter \cup { Append(q, x) : q \in shorter, x \in S }

\* the cell sizes the brush measures
BrushDimensions ==
    { << >> } \cup
    { << [width |-> w, height |-> h] >> :
          w \in {0, Px(14) \div 2, Px(18) \div 2},
          h \in {0, Px(8) \div 2} }

\* the layouts a caller passes to new()
InitialLayouts ==
    { [dimensions |-> [width |-> w, height |-> h]] :
          w \in {0, Px(14) \div 2}, h \in {0, Px(8) \div 2} }

\* the engine as new() leaves it, with a SugarState as new() leaves it
InitSugar ==
    LET grid == ContextGrid_new(Context(0, InitialDimension), GridMargin)
    IN  /\ inner = grid.inner
        /\ current = grid.current
        /\ width = grid.width
        /\ height = grid.height
        /\ margin = grid.margin
        /\ panicked = FALSE
        /\ splits = 0
        /\ removes = 0
        /\ removes_le_splits = TRUE
        /\ resizes = 0
        /\ last_op = "new"
        /\ pre = [inner |-> grid.inner, current |-> grid.current,
                  width |-> grid.width, height |-> grid.height]
        /\ updates = 0
        /\ args = << >>
        /\ result = << >>
        /\ pc = 0
        /\ queue = << >>
        /\ pending = [inner |-> grid.inner, current |-> grid.current,
                      width |-> grid.width, height |-> grid.height]
        /\ locks = [id \in SessionIds |-> "free"]
        /\ send_failed = FALSE
        /\ \E initial_layout \in InitialLayouts :
               state = SugarState_new(initial_layout)
        /\ call = [op |-> "new"]
        /\ before = state

sugar_frame ==
    << inner, current, width, height, margin, panicked,
       splits, removes, resizes, removes_le_splits, last_op, pre,
       updates, computevars, lockvars >>

\* one call of a method of SugarState
Called(op, after) ==
    /\ state' = after
    /\ before' = state
    /\ call' = [op |-> op]
    /\ UNCHANGED sugar_frame

ComputeLayoutResize ==
    Called("compute_layout_resize", compute_layout_resize(state))

ComputeLayoutRescale ==
    Called("compute_layout_rescale", compute_layout_rescale(state))

ComputeLayoutFontSize ==
    \E operation \in 0 .. 3, changed \in BOOLEAN :
        /\ state' = compute_layout_font_size(state, operation, changed)
        /\ before' = state
        /\ call' = [op |-> "compute_layout_font_size",
                    applied |-> (operation \in {0, 1, 2} /\ changed)]
        /\ UNCHANGED sugar_frame

SetFonts == Called("set_fonts", set_fonts(state))

SetFontFeatures == Called("set_font_features", set_font_features(state))

CleanScreen == Called("clean_screen", clean_screen(state))

ComputeObjects ==
    \E new_objects \in SeqsUpTo(SugarObjects, MaxObjects) :
        /\ state' = compute_objects(state, new_objects)
        /\ before' = state
        /\ call' = [op |-> "compute_objects", new_objects |-> new_objects]
        /\ UNCHANGED sugar_frame

ComputeDimensions ==
    \E dimension \in BrushDimensions :
        /\ state' = compute_dimensions(state, dimension)
        /\ before' = state
        /\ call' = [op |-> "compute_dimensions", dimension |-> dimension]
        /\ UNCHANGED sugar_frame

ComputeChanges == Called("compute_changes", compute_changes(state))

NextSugar ==
    \/ ComputeLayoutResize
    \/ ComputeLayoutRescale
    \/ ComputeLayoutFontSize
    \/ SetFonts
    \/ SetFontFeatures
    \/ CleanScreen
    \/ ComputeObjects
    \/ ComputeDimensions
    \/ ComputeChanges

SpecSugar == InitSugar /\ [][NextSugar]_vars

(* ------------------------------- the tree ------------------------------ *)
Count == Len(inner)
\* the focus index designates an item of the array
ValidFocus == InBounds(inner, current)
\* the last call returned (did not panic)
Returned(op) == last_op = op /\ ~panicked

\* the indices the right/down pointers of the item at i hold
Targets(items, i) ==
    {Unwrap(o) : o \in {q \in {At(items, i).right, At(items, i).down} : IsSome(q)}}
\* the pointers (item, axis) that hold the index j
Incoming(items, j) ==
    {<< i, "right" >> : i \in {k \in Indices(items) : At(items, k).right = Some(j)}}
        \cup
    {<< i, "down" >> : i \in {k \in Indices(items) : At(items, k).down = Some(j)}}
\* the items reached from the set S by following at most n pointers,
\* S itself not included unless a pointer leads back to it
RECURSIVE Descendants(_, _, _)
Descendants(items, S, n) ==
    LET next == UNION {Targets(items, i) : i \in S \cap Indices(items)}
    IN  IF n = 0 \/ next = {} THEN {}
        ELSE next \cup Descendants(items, next, n - 1)
Reachable(items, i) == {i} \cup Descendants(items, {i}, Len(items))
\* how many RichText objects of objs carry the id
TextRegions(objs, id) ==
    Cardinality({n \in DOMAIN objs :
                    objs[n].kind = "RichText" /\ objs[n].id = id})

(* ------------------------------- claims -------------------------------- *)

\* C1: in every state reached from new() by split_right, split_down,
\* select_next_split, select_prev_split, remove_current and resize, current is
\* less than the pane count.  Stated for the grids that still hold a pane
\* (the empty grid is C2's subject).
C1_FocusDesignatesPane == (~panicked /\ Count >= 1) => ValidFocus

\* C2: the pane array is never empty, remove_current on the last pane included.
C2_NeverEmpty == Count >= 1

\* C3: in every reachable state every pane is the target of at most one
\* right/down pointer (all panes' pointers counted together), and following
\* right/down pointers from a pane never leads back to it.
C3_Forest ==
    /\ \A j \in Indices(inner) : Cardinality(Incoming(inner, j)) <= 1
    /\ \A i \in Indices(inner) : i \notin Descendants(inner, {i}, Count)

\* a remove_current has spliced a pane out of a grid that keeps pointers
C3_Witness ==
    /\ Returned("remove_current")
    /\ Count >= 2
    /\ \E i \in Indices(inner) : Targets(inner, i) # {}

\* C4: while at least one pane is left, every pane is reached from index 0 by
\* right/down pointers, and objects() holds exactly one RichText per pane.
C4_NoPaneUnreachable ==
    (~panicked /\ Count >= 1) =>
        /\ Reachable(inner, 0) = Indices(inner)
        /\ \A id \in Ids(inner) : TextRegions(objects(inner, margin), id) = 1

(* ----------------------- remove_current, before/after ------------------ *)
\* the index removed by the last remove_current
Removed == pre.current
\* where the item stored at index n after a removal was stored before it
Before(n) == IF n < Removed THEN n ELSE n + 1
\* the parent the scan of the last remove_current found, None when none
PreParent == parent_context(pre.inner, pre.current)

\* one pointer of a remaining pane across a removal: before holds v, after w
PointerCompacted(v, w) ==
    IF ~IsSome(v) THEN w = None
    ELSE IF Unwrap(v) > Removed
    THEN /\ w = Some(Unwrap(v) - 1)
         /\ InBounds(inner, Unwrap(w))
         /\ At(inner, Unwrap(w)).val.rich_text_id
                = At(pre.inner, Unwrap(v)).val.rich_text_id
    ELSE IF Unwrap(v) < Removed
    THEN /\ w = v
         /\ At(inner, Unwrap(w)).val.rich_text_id
                = At(pre.inner, Unwrap(v)).val.rich_text_id
    \* the parent's pointer to the removed pane, spliced
    ELSE IsSome(w) =>
            /\ InBounds(inner, Unwrap(w))
            /\ At(inner, Unwrap(w)).val.rich_text_id
                   # At(pre.inner, Removed).val.rich_text_id

\* C5: after remove_current removed the pane at index i, the remaining panes
\* are the former ones in order; none of their pointers refers to the removed
\* pane; a pointer that held j > i holds j - 1 and refers to the same pane; a
\* pointer that held a value < i, or none, is unchanged.
C5_Compaction ==
    Returned("remove_current") =>
        /\ Count = Len(pre.inner) - 1
        /\ At(pre.inner, Removed).val.rich_text_id \notin Ids(inner)
        /\ \A n \in Indices(inner) :
              /\ At(inner, n).val.rich_text_id
                     = At(pre.inner, Before(n)).val.rich_text_id
              /\ PointerCompacted(At(pre.inner, Before(n)).right, At(inner, n).right)
              /\ PointerCompacted(At(pre.inner, Before(n)).down, At(inner, n).down)

\* a removal that left a pane whose pointer held an index above the removed one
C5_Witness ==
    /\ Returned("remove_current")
    /\ \E n \in Indices(inner) :
          \E o \in {At(pre.inner, Before(n)).right, At(pre.inner, Before(n)).down} :
              IsSome(o) /\ Unwrap(o) > Removed

\* C6: after remove_current on a focused pane that has a parent, current is
\* the index at which that parent is stored in the compacted array.
C6_FocusOnParent ==
    (Returned("remove_current") /\ IsSome(PreParent)) =>
        /\ ValidFocus
        /\ At(inner, current).val.rich_text_id
               = At(pre.inner, Unwrap(PreParent)[2]).val.rich_text_id

\* C7: after remove_current on a focused pane that has no parent but a right
\* child, the child is wider by removed.width + PADDING and current is the
\* index at which the child is stored, right_child_index - 1; with no right
\* child but a down child, the child is higher by removed.height and current
\* is the index at which it is stored, down_child_index - 1.
C7_FocusOnChild ==
    (Returned("remove_current") /\ ~IsSome(PreParent)) =>
        LET removed == At(pre.inner, Removed)
            axis == IF IsSome(removed.right) THEN "right" ELSE "down"
            pointer == IF axis = "right" THEN removed.right ELSE removed.down
        IN  IsSome(pointer) =>
              LET child == At(pre.inner, Unwrap(pointer))
              IN  /\ current = Unwrap(pointer) - 1
                  /\ ValidFocus
                  /\ At(inner, current).val.rich_text_id = child.val.rich_text_id
                  /\ axis = "right" =>
                        At(inner, current).val.dimension.width
                            = child.val.dimension.width
                                + removed.val.dimension.width + Px(PADDING)
                  /\ axis = "down" =>
                        At(inner, current).val.dimension.height
                            = child.val.dimension.height
                                + removed.val.dimension.height

\* C8: after k split calls and r remove_current calls, r <= k after every
\* call, the pane count is 1 + k - r.
C8_PaneCount == removes_le_splits => Count = 1 + splits - removes

\* C9: split_right on focused pane f appends the new pane at n = old count,
\* gives it f's former right pointer and no down pointer, points f.right at n,
\* sets current to n and changes no other pointer; split_down likewise with
\* right and down exchanged.
C9_SplitSplices ==
    LET f == pre.current
        n == Len(pre.inner)
    IN  /\ Returned("split_right") =>
            /\ Count = n + 1
            /\ current = n
            /\ At(inner, n).right = At(pre.inner, f).right
            /\ At(inner, n).down = None
            /\ At(inner, f).right = Some(n)
            /\ \A i \in Indices(pre.inner) :
                  /\ At(inner, i).down = At(pre.inner, i).down
                  /\ i # f => At(inner, i).right = At(pre.inner, i).right
        /\ Returned("split_down") =>
            /\ Count = n + 1
            /\ current = n
            /\ At(inner, n).down = At(pre.inner, f).down
            /\ At(inner, n).right = None
            /\ At(inner, f).down = Some(n)
            /\ \A i \in Indices(pre.inner) :
                  /\ At(inner, i).right = At(pre.inner, i).right
                  /\ i # f => At(inner, i).down = At(pre.inner, i).down

\* a split_right of a pane that already had a right neighbour
C9_Witness ==
    /\ Returned("split_right")
    /\ IsSome(At(pre.inner, pre.current).right)
    /\ At(inner, current).right = At(pre.inner, pre.current).right

\* C10: select_next_split sets current to (current + 1) mod n and
\* select_prev_split to (current - 1) mod n, n the pane count; each undoes
\* the other; with n = 1 both change nothing; neither changes the array.
\* Stated for n >= 1 and a focus index below 2^63.
C10_FocusCycles ==
    (~panicked /\ Count >= 1 /\ pre.current >= 0 /\ current >= 0) =>
        /\ Returned("select_next_split") =>
              /\ current = (pre.current + 1) % Count
              /\ inner = pre.inner
        /\ Returned("select_prev_split") =>
              /\ current = (pre.current - 1) % Count
              /\ inner = pre.inner
        /\ \A checks \in BOOLEAN :
              /\ select_prev_split(inner,
                     select_next_split(inner, current, checks).current,
                     checks).current = current
              /\ select_next_split(inner,
                     select_prev_split(inner, current, checks).current,
                     checks).current = current
        /\ Count = 1 =>
              \A checks \in BOOLEAN :
                  /\ select_next_split(inner, current, checks).current = current
                  /\ select_prev_split(inner, current, checks).current = current

(* ------------------------------ geometry ------------------------------- *)
\* the dimension of the item at index i
Dim(items, i) == At(items, i).val.dimension

\* C14: split_right sets the width of the focused pane and of the new pane
\* to (old focused width / 2) - PADDING, split_down sets the height of both to
\* (old focused height / 2) - 2*PADDING, and neither changes the engine's own
\* width and height.
C14_SplitSizes ==
    LET f == pre.current
        n == Len(pre.inner)
    IN  /\ Returned("split_right") =>
            /\ Dim(inner, f).width
                  = (Dim(pre.inner, f).width \div 2) - Px(PADDING)
            /\ Dim(inner, n).width = Dim(inner, f).width
            /\ width = pre.width /\ height = pre.height
        /\ Returned("split_down") =>
            /\ Dim(inner, f).height
                  = (Dim(pre.inner, f).height \div 2) - Px(2 * PADDING)
            /\ Dim(inner, n).height = Dim(inner, f).height
            /\ width = pre.width /\ height = pre.height

\* a split_down of a pane that an earlier split had already shrunk
C14_Witness ==
    /\ Returned("split_down")
    /\ Dim(pre.inner, pre.current).height < Px(InitialHeight)
    /\ Dim(inner, current).height = Dim(inner, pre.current).height

\* C16: whenever the engine holds exactly one pane, objects() is exactly one
\* RichText with that pane's rich_text_id at [margin.x, margin.top_y], and no
\* Rect.
C16_SinglePaneDrawing ==
    Count = 1 =>
        objects(inner, margin)
            = << [kind |-> "RichText", id |-> inner[1].val.rich_text_id,
                  position |-> << Px(margin.x), Px(margin.top_y) >>] >>

\* one pane again after a removal
C16_Witness ==
    /\ Count = 1
    /\ Returned("remove_current")
    /\ Len(objects(inner, margin)) = 1

\* the index of the pane that carries the rich_text_id
PaneOf(id) == CHOOSE i \in Indices(inner) : At(inner, i).val.rich_text_id = id
TextAt(id, x, y) == [kind |-> "RichText", id |-> id, position |-> << x, y >>]
SeparatorAt(x, y, w, h) ==
    [kind |-> "Rect", position |-> << x, y >>, size |-> << w, h >>]
\* the engine as new() with the test's values made it, nothing removed or
\* resized since
FreshEngine ==
    /\ ~panicked /\ removes = 0 /\ resizes = 0
    /\ width = Px(InitialWidth) /\ height = Px(InitialHeight)
\* ... after two successive split_right calls
TwoSplitsRight ==
    /\ FreshEngine /\ Count = 3
    /\ << inner[1].right, inner[2].right, inner[3].right >>
          = << Some(1), Some(2), None >>
    /\ \A n \in DOMAIN inner : inner[n].down = None
\* ... after two successive split_down calls
TwoSplitsDown ==
    /\ FreshEngine /\ Count = 3
    /\ << inner[1].down, inner[2].down, inner[3].down >>
          = << Some(1), Some(2), None >>
    /\ \A n \in DOMAIN inner : inner[n].right = None

\* C17: with two or more panes objects() starts with the RichText of index 0
\* at the margin; the RichText of a pane at (x, y) that has a right neighbour
\* is followed by a Rect at [x + width/scale, y] of size [2/scale, height] and
\* then by the whole right subtree, drawn at x + PADDING + width/scale.  After
\* two successive split_right calls on the 1200x800 engine (cell {2, 14, 8},
\* margin {10, 20, 20}) the RichTexts are at x = 10, 312, 463 and the Rects at
\* x = 308 and 459, each of size [1, 800].
C17_RightNeighbourDrawing ==
    LET objs == objects(inner, margin)
    IN  /\ Count >= 2 =>
            /\ objs[1] = TextAt(inner[1].val.rich_text_id,
                                Px(margin.x), Px(margin.top_y))
            /\ \A n \in DOMAIN objs :
                 (objs[n].kind = "RichText"
                    /\ IsSome(At(inner, PaneOf(objs[n].id)).right)) =>
                 LET item == At(inner, PaneOf(objs[n].id))
                     d == item.val.dimension
                     x == objs[n].position[1]
                     y == objs[n].position[2]
                     nx == x + Px(PADDING) + (d.width \div d.dimension.scale)
                     r == Unwrap(item.right)
                     sub == plot_objects(inner, r,
                                [x |-> nx, top_y |-> y,
                                 bottom_y |-> Px(margin.bottom_y)])
                 IN  /\ n + 1 + Len(sub) <= Len(objs)
                     /\ objs[n + 1]
                           = SeparatorAt(x + (d.width \div d.dimension.scale), y,
                                         Px(2) \div d.dimension.scale, d.height)
                     /\ SubSeq(objs, n + 2, n + 1 + Len(sub)) = sub
                     /\ InBounds(inner, r) =>
                           objs[n + 2] = TextAt(At(inner, r).val.rich_text_id,
                                                nx, y)
        /\ TwoSplitsRight =>
            objs = << TextAt(0, Px(10), Px(20)),
                      SeparatorAt(Px(308), Px(20), Px(1), Px(800)),
                      TextAt(1, Px(312), Px(20)),
                      SeparatorAt(Px(459), Px(20), Px(1), Px(800)),
                      TextAt(2, Px(463), Px(20)) >>

\* the engine after two successive split_right calls
C17_Witness == TwoSplitsRight /\ Len(objects(inner, margin)) = 5

\* C18: the RichText of a pane at (x, y) that has a down neighbour is
\* followed, after the pane's right subtree, by a Rect at
\* [x, y + height/scale] of size [width, 2/scale] and then by the whole down
\* subtree, drawn at y + PADDING + height/scale.  After two successive
\* split_down calls on the 1200x800 engine (cell {2, 14, 8}, margin
\* {10, 20, 20}) the RichTexts are at y = 20, 220, 318 and the Rects at
\* y = 216 and 314, each of size [1200, 1].
C18_DownNeighbourDrawing ==
    LET objs == objects(inner, margin)
    IN  /\ Count >= 2 =>
            \A n \in DOMAIN objs :
                 (objs[n].kind = "RichText"
                    /\ IsSome(At(inner, PaneOf(objs[n].id)).down)) =>
                 LET item == At(inner, PaneOf(objs[n].id))
                     d == item.val.dimension
                     x == objs[n].position[1]
                     y == objs[n].position[2]
                     right_len ==
                         IF IsSome(item.right)
                         THEN 1 + Len(plot_objects(inner, Unwrap(item.right),
                                          [x |-> x, top_y |-> y, bottom_y |-> 0]))
                         ELSE 0
                     k == n + right_len
                     ny == y + Px(PADDING) + (d.height \div d.dimension.scale)
                     b == Unwrap(item.down)
                     sub == plot_objects(inner, b,
                                [x |-> x, top_y |-> ny,
                                 bottom_y |-> Px(margin.bottom_y)])
                 IN  /\ k + 1 + Len(sub) <= Len(objs)
                     /\ objs[k + 1]
                           = SeparatorAt(x, y + (d.height \div d.dimension.scale),
                                         d.width, Px(2) \div d.dimension.scale)
                     /\ SubSeq(objs, k + 2, k + 1 + Len(sub)) = sub
                     /\ InBounds(inner, b) =>
                           objs[k + 2] = TextAt(At(inner, b).val.rich_text_id,
                                                x, ny)
        /\ TwoSplitsDown =>
            objs = << TextAt(0, Px(10), Px(20)),
                      SeparatorAt(Px(10), Px(216), Px(1200), Px(1)),
                      TextAt(1, Px(10), Px(220)),
                      SeparatorAt(Px(10), Px(314), Px(1200), Px(1)),
                      TextAt(2, Px(10), Px(318)) >>

\* the engine after two successive split_down calls
C18_Witness == TwoSplitsDown /\ Len(objects(inner, margin)) = 5

\* the right and down pointers of all items, in array order
Pointers(items) == [n \in DOMAIN items |-> << items[n].right, items[n].down >>]

\* C15: in a state with a valid focus, split_right immediately followed by
\* remove_current restores the pane count, current and every right/down
\* pointer and leaves the pane that was focused with its old width - PADDING;
\* split_down followed by remove_current restores the same and leaves it with
\* its old height - 4*PADDING.
C15_SplitThenRemove ==
    (~panicked /\ ValidFocus) =>
        \A context \in NewContexts(splits + 1), checks \in BOOLEAN :
            LET sr == split_right(inner, current, context)
                rr == remove_current(sr.inner, sr.current, checks)
                sd == split_down(inner, current, context)
                rd == remove_current(sd.inner, sd.current, checks)
            IN  /\ ~sr.panic /\ ~rr.panic
                /\ Len(rr.inner) = Count
                /\ rr.current = current
                /\ Pointers(rr.inner) = Pointers(inner)
                /\ Dim(rr.inner, current).width
                      = Dim(inner, current).width - Px(PADDING)
                /\ ~sd.panic /\ ~rd.panic
                /\ Len(rd.inner) = Count
                /\ rd.current = current
                /\ Pointers(rd.inner) = Pointers(inner)
                /\ Dim(rd.inner, current).height
                      = Dim(inner, current).height - Px(4 * PADDING)

\* remove_current has run on the engine as a split_right leaves it (the
\* newest pane focused, right of a pane of its own width) and the pane that
\* was split is focused again, PADDING narrower than twice that and a gap
C15_Witness ==
    /\ Returned("remove_current")
    /\ pre.current = Len(pre.inner) - 1
    /\ Count = Len(pre.inner) - 1
    /\ ValidFocus
    /\ At(pre.inner, current).right = Some(pre.current)
    /\ Dim(pre.inner, current).width = Dim(pre.inner, pre.current).width
    /\ Dim(inner, current).width
          = 2 * Dim(pre.inner, current).width + Px(PADDING)

(* ------------------------------- compute ------------------------------- *)
\* the call of compute on its own has returned
Computed == args # << >> /\ result # << >>
\* degenerate geometry: no usable pixel space on an axis
Degenerate(a) ==
    \/ a.width - Px(a.margin.x * a.dimensions.scale * a.dimensions.scale) <= 0
    \/ a.height - Px((a.margin.top_y + a.margin.bottom_y) * a.dimensions.scale) <= 0

\* C19: every pane of every reachable state has columns >= 2 and lines >= 1,
\* and so has every result of compute, on degenerate geometry (zero or
\* negative usable pixel space) too.  The counts are usize values and are
\* compared as such.
C19_MinimumCells ==
    /\ \A n \in DOMAIN inner :
          /\ UGe(inner[n].val.dimension.columns, 2)
          /\ UGe(inner[n].val.dimension.lines, 1)
    /\ Computed => /\ UGe(result[1][1], 2)
                   /\ UGe(result[1][2], 1)

\* compute has returned the minimums for a pane of negative width and height
C19_Witness ==
    /\ Computed
    /\ args[1].width < 0 /\ args[1].height < 0
    /\ Degenerate(args[1])
    /\ result[1] = << 2, 1 >>

\* the arguments of the scenario, but for the margin
Scenario(a) ==
    /\ a.width = Px(1200) /\ a.height = Px(800)
    /\ a.dimensions = [scale |-> 2, width |-> 18, height |-> 9]
    /\ a.line_height = 1

\* C20: compute with width 1200, height 800, cell metrics {scale 2, width 18,
\* height 9}, line height 1.0 and margin {x 10, top_y 20, bottom_y 20}
\* returns columns = 66 and lines = 88.
C20_Scenario ==
    (Computed /\ Scenario(args[1])
        /\ args[1].margin = [x |-> 10, top_y |-> 20, bottom_y |-> 20]) =>
        result[1] = << 66, 88 >>

\* C20, amended: with those arguments compute returns columns = 64 and
\* lines = 80; it returns columns = 66 and lines = 88 when the margin is
\* {0, 0, 0}, the margin of the pane in the test of the scenario.
C20_ScenarioAmended ==
    (Computed /\ Scenario(args[1])) =>
        /\ args[1].margin = [x |-> 10, top_y |-> 20, bottom_y |-> 20] =>
              result[1] = << 64, 80 >>
        /\ args[1].margin = [x |-> 0, top_y |-> 0, bottom_y |-> 0] =>
              result[1] = << 66, 88 >>

\* compute has returned for the scenario with the margin {10, 20, 20}
C20_Witness ==
    /\ Computed /\ Scenario(args[1])
    /\ args[1].margin = [x |-> 10, top_y |-> 20, bottom_y |-> 20]
    /\ result[1] = << 64, 80 >>

(* ------------------------------ sessions ------------------------------- *)
\* the terminal session of the item at position n has the columns and lines
\* of the pane
InSync(items, n) ==
    items[n].val.terminal = SessionSize(items[n].val.dimension)

\* C11: after split_right, split_down, remove_current, resize, update_margin
\* or update_dimensions has returned, the terminal session of every pane
\* whose columns or lines the call changed has the new columns and lines;
\* sessions that start in sync with their panes stay in sync.
C11_SessionsInSync ==
    ~panicked => \A n \in DOMAIN inner : InSync(inner, n)

\* the sessions whose lock the engine holds
Held == {id \in SessionIds : locks[id] = "engine"}
\* the session of the context with the rich_text_id has the size of the
\* context's dimension (if the context is in the grid)
Resized(id) ==
    \A n \in DOMAIN inner :
        inner[n].val.rich_text_id = id => InSync(inner, n)
\* the handlers that resize sessions
Mutators == {"split_right", "split_down", "remove_current", "resize"}

\* C12: for each pane a handler resizes it takes the session's lock, resizes
\* the session, releases the lock and then sends the notification; it never
\* holds two session locks, holds none while it sends and none when it
\* returns, and the parser thread never holds the lock of a session between
\* the engine's lock and drop.
C12_LockDiscipline ==
    /\ Cardinality(Held) <= 1
    /\ pc = 0 => Held = {}
    /\ pc > 0 =>
          /\ queue # << >>
          /\ Steps[pc] = "lock" => Held = {}
          /\ Steps[pc] = "resize" =>
                Held = {queue[1]}
          /\ Steps[pc] = "drop" =>
                Held = {queue[1]} /\ Resized(queue[1])
          /\ Steps[pc] = "send_resize" =>
                Held = {} /\ Resized(queue[1])
          /\ Steps[pc] \in {"resize", "drop"} => locks[queue[1]] # "parser"

\* resize is about to send the notification of a pane while the pane's
\* parser thread holds the session's lock again, another pane still to do
C12_Witness ==
    /\ pc > 0 /\ ~panicked
    /\ last_op = "resize"
    /\ Steps[pc] = "send_resize"
    /\ Len(queue) >= 2
    /\ locks[queue[1]] = "parser"

\* C13: a send_resize that fails (channel closed) surfaces no error, and the
\* handler returns with the engine's fields and the sessions' sizes as they
\* are when every notification is delivered.
C13_SendFailureIgnored ==
    /\ send_failed => ~panicked
    /\ (pc = 0 /\ ~panicked /\ last_op \in Mutators) =>
          /\ inner = pending.inner
          /\ current = pending.current
          /\ width = pending.width
          /\ height = pending.height

\* split_right has returned after a failed send_resize, both sessions resized
C13_Witness ==
    /\ pc = 0
    /\ Returned("split_right")
    /\ send_failed
    /\ inner = pending.inner
    /\ \A n \in DOMAIN inner : InSync(inner, n)

\* compute on the arguments a
ComputeOf(a) ==
    compute(a.width, a.height, a.dimensions, a.line_height, a.margin)
\* the arguments a and b differ in width and height at most
SameButSize(a, b) ==
    /\ a.dimensions = b.dimensions
    /\ a.line_height = b.line_height
    /\ a.margin = b.margin

\* C21: for fixed positive cell metrics, line height and margin, compute
\* gives no fewer columns for a larger width and no fewer lines for a larger
\* height; the columns do not depend on the height, nor the lines on the
\* width.  The counts are compared as usize values.
C21_ComputeMonotonic ==
    (Computed /\ args[1].dimensions.width > 0 /\ args[1].dimensions.height > 0) =>
        \A b \in ComputeArgs :
            SameButSize(args[1], b) =>
                /\ args[1].width <= b.width =>
                      UGe(ComputeOf(b)[1], result[1][1])
                /\ args[1].height <= b.height =>
                      UGe(ComputeOf(b)[2], result[1][2])
                /\ args[1].width = b.width => ComputeOf(b)[1] = result[1][1]
                /\ args[1].height = b.height => ComputeOf(b)[2] = result[1][2]

\* compute has returned for a pane that is neither the smallest nor the
\* largest of the arguments, and a larger one has more columns
C21_Witness ==
    /\ Computed
    /\ args[1].dimensions.width > 0
    /\ args[1].width = Px(36) /\ args[1].height = Px(89)
    /\ args[1].margin = DefaultMargin
    /\ result[1][2] > 1
    /\ \E b \in ComputeArgs :
          SameButSize(args[1], b) /\ ComputeOf(b)[1] > result[1][1]

\* C22: resize with the engine's current width and height, and resize
\* called a second time with the same arguments, change no pane's width,
\* height, columns or lines and no field of the engine.
C22_ResizeIdempotent ==
    ~panicked =>
        /\ LET same == resize(inner, width, height, width, height)
           IN  /\ same.inner = inner
               /\ same.width = width /\ same.height = height
        /\ \A size \in ResizeSizes :
              LET once == resize(inner, width, height, Px(size[1]), Px(size[2]))
                  twice == resize(once.inner, once.width, once.height,
                                  Px(size[1]), Px(size[2]))
              IN  twice = once

\* resize has returned on a grid of three panes that had the size asked for
C22_Witness ==
    /\ Returned("resize")
    /\ Count = 3
    /\ width = pre.width /\ height = pre.height
    /\ inner = pre.inner

\* C23: new yields an engine with exactly one pane, current = 0, no right or
\* down pointer, the width and height of the initial pane, the given margin
\* as the engine's margin and the pane's own margin as it was.
C23_Construction ==
    /\ last_op = "new" =>
          /\ Count = 1 /\ current = 0
          /\ inner[1].right = None /\ inner[1].down = None
          /\ width = inner[1].val.dimension.width
          /\ height = inner[1].val.dimension.height
          /\ margin = GridMargin
          /\ inner[1].val.dimension.margin = DefaultMargin
    /\ \A n \in DOMAIN inner, m \in {DefaultMargin, GridMargin, margin} :
          LET context == inner[n].val
              grid == ContextGrid_new(context, m)
          IN  /\ Len(grid.inner) = 1 /\ grid.current = 0
              /\ grid.inner[1].right = None /\ grid.inner[1].down = None
              /\ grid.inner[1].val = context
              /\ grid.width = context.dimension.width
              /\ grid.height = context.dimension.height
              /\ grid.margin = m

\* the engine as new() returned it
C23_Witness ==
    /\ last_op = "new"
    /\ Count = 1 /\ current = 0
    /\ margin # inner[1].val.dimension.margin

(* ------------------------------- resize -------------------------------- *)
\* the deltas C24 gives the pane at index i, which receives (aw, ah), and the
\* panes below it, as triples << index, width delta, height delta >>; n
\* bounds the depth
RECURSIVE Shares(_, _, _, _, _)
Shares(items, i, aw, ah, n) ==
    IF n = 0 \/ ~InBounds(items, i) THEN {}
    ELSE LET item == At(items, i)
             own == << i,
                       IF IsSome(item.right) THEN aw - (aw \div 2) ELSE aw,
                       IF IsSome(item.down) THEN ah - (ah \div 2) ELSE ah >>
         IN  {own}
             \cup (IF IsSome(item.right)
                   THEN Shares(items, Unwrap(item.right), aw \div 2, ah, n - 1)
                   ELSE {})
             \cup (IF IsSome(item.down)
                   THEN Shares(items, Unwrap(item.down), aw, ah \div 2, n - 1)
                   ELSE {})

\* C24: in resize the recursion starts at index 0 with the width and height
\* difference; a leaf's delta is what it receives; a pane with a right
\* neighbour hands half of the width it receives to it and takes the other
\* half; a pane with a down neighbour hands half of the height it receives to
\* it and takes the other half; in chains of any length.
C24_ResizeShares ==
    Returned("resize") =>
        \A t \in Shares(pre.inner, 0, width - pre.width, height - pre.height,
                        Len(pre.inner)) :
            /\ Dim(inner, t[1]).width = Dim(pre.inner, t[1]).width + t[2]
            /\ Dim(inner, t[1]).height = Dim(pre.inner, t[1]).height + t[3]

\* the grid is a single row: a chain of right pointers from index 0 through
\* all panes, no down pointer
RECURSIVE RowFrom(_, _, _)
RowFrom(items, i, n) ==
    IF n = 0 \/ ~InBounds(items, i) THEN {}
    ELSE {i} \cup (IF IsSome(At(items, i).right)
                   THEN RowFrom(items, Unwrap(At(items, i).right), n - 1)
                   ELSE {})
SingleRow(items) ==
    /\ Len(items) >= 1
    /\ \A n \in DOMAIN items : items[n].down = None
    /\ RowFrom(items, 0, Len(items)) = Indices(items)
RECURSIVE SumWidths(_)
SumWidths(items) ==
    IF items = << >> THEN 0
    ELSE Head(items).val.dimension.width + SumWidths(Tail(items))

\* C29: on a grid that is a single row of side-by-side panes resize changes
\* the sum of the panes' widths by exactly the new width minus the old one.
C29_RowWidthConserved ==
    (Returned("resize") /\ removes = 0 /\ SingleRow(pre.inner)) =>
        SumWidths(inner) - SumWidths(pre.inner) = width - pre.width

(* ------------------------------ re-parenting --------------------------- *)
\* the index at which the item stored at index i before a removal is stored
\* after it
After(i) == IF i > Removed THEN i - 1 ELSE i
\* the rich_text_ids of the right and the down neighbour of the item at i
ChildIds(items, i) ==
    << IF IsSome(At(items, i).right) /\ InBounds(items, Unwrap(At(items, i).right))
       THEN << At(items, Unwrap(At(items, i).right)).val.rich_text_id >>
       ELSE At(items, i).right,
       IF IsSome(At(items, i).down) /\ InBounds(items, Unwrap(At(items, i).down))
       THEN << At(items, Unwrap(At(items, i).down)).val.rich_text_id >>
       ELSE At(items, i).down >>
\* the pointer of the item on the axis
Axis(item, is_right) == IF is_right THEN item.right ELSE item.down

\* C25: when remove_current removes a pane whose parent points to it on one
\* axis, the parent's pointer on that axis afterwards refers to the removed
\* pane's neighbour on that axis, at its compacted index, and that
\* neighbour's subtree is as before; it is empty when the removed pane had no
\* neighbour on that axis.
C25_Reparenting ==
    (Returned("remove_current") /\ IsSome(PreParent)) =>
        LET is_right == Unwrap(PreParent)[1]
            p == Unwrap(PreParent)[2]
            inherited == Axis(At(pre.inner, Removed), is_right)
            now == Axis(At(inner, After(p)), is_right)
        IN  /\ At(inner, After(p)).val.rich_text_id
                  = At(pre.inner, p).val.rich_text_id
            /\ ~IsSome(inherited) => now = None
            /\ IsSome(inherited) =>
                  LET g == Unwrap(inherited)
                  IN  /\ now = Some(After(g))
                      /\ InBounds(inner, After(g))
                      /\ \A k \in Reachable(pre.inner, g) :
                            /\ InBounds(inner, After(k))
                            /\ At(inner, After(k)).val.rich_text_id
                                  = At(pre.inner, k).val.rich_text_id
                            /\ ChildIds(inner, After(k)) = ChildIds(pre.inner, k)

\* remove_current has removed the middle pane of a row of three: the first
\* pane now points to the third
C25_Witness ==
    /\ Returned("remove_current")
    /\ IsSome(PreParent)
    /\ Unwrap(PreParent)[1]
    /\ IsSome(At(pre.inner, Removed).right)
    /\ At(inner, After(Unwrap(PreParent)[2])).right
          = Some(After(Unwrap(At(pre.inner, Removed).right)))

(* --------------------------- columns and lines ------------------------- *)
\* C26: in every reachable state the columns and lines of every pane are
\* those compute gives for the pane's width, height, cell size and margin
\* with line height 1.0: split, remove_current, resize, update_margin and
\* update_dimensions leave no pane with stale columns or lines.
C26_CellsUpToDate ==
    \A n \in DOMAIN inner :
        LET d == inner[n].val.dimension
        IN  << d.columns, d.lines >>
                = compute(d.width, d.height, d.dimension, 1, d.margin)

\* update_margin has returned on a grid of two or more panes and changed the
\* columns and lines of a pane that a split or resize had sized
C26_Witness ==
    /\ Returned("update_margin")
    /\ Count >= 2
    /\ \E n \in DOMAIN inner :
          /\ inner[n].val.dimension.width # Px(InitialWidth)
          /\ inner[n].val.dimension.columns
                # pre.inner[n].val.dimension.columns
          /\ inner[n].val.dimension.lines # pre.inner[n].val.dimension.lines

(* --------------------------- the focused pane -------------------------- *)
\* C27: in every reachable state with a valid focus
\* current_context_with_computed_dimension returns the focused pane and a
\* margin whose x and top_y are the x and y of the focused pane's RichText in
\* objects() plus PADDING and whose bottom_y is the engine margin's.
C27_ComputedDimension ==
    (~panicked /\ ValidFocus) =>
        LET r == current_context_with_computed_dimension(inner, current, margin)
            objs == objects(inner, margin)
        IN  /\ ~r.panic
            /\ r.val = At(inner, current).val
            /\ \E n \in DOMAIN objs :
                  /\ objs[n].kind = "RichText"
                  /\ objs[n].id = At(inner, current).val.rich_text_id
                  /\ r.margin = [x |-> objs[n].position[1] + Px(PADDING),
                                 top_y |-> objs[n].position[2] + Px(PADDING),
                                 bottom_y |-> Px(margin.bottom_y)]

(* ------------------------------- pointers ------------------------------ *)
\* C28: in every reachable state every right or down pointer that is set is
\* a valid index and differs from the index of the pane that holds it.
C28_PointersValid ==
    \A i \in Indices(inner) :
        \A j \in Targets(inner, i) :
            InBounds(inner, j) /\ j # i

\* remove_current has removed a pane stored below the last one, whose index
\* a remaining pane's pointer held
C28_Witness ==
    /\ Returned("remove_current")
    /\ Count >= 2
    /\ \E i \in Indices(pre.inner) :
          Len(pre.inner) - 1 \in Targets(pre.inner, i) /\ i # Removed
    /\ Removed < Len(pre.inner) - 1
    /\ \E i \in Indices(inner) : Targets(inner, i) # {}

(* ------------------------------ termination ---------------------------- *)
\* the indices plot_objects and resize_context visit from index i, in the
\* order of the visits; n bounds the depth
RECURSIVE Visits(_, _, _)
Visits(items, i, n) ==
    IF n = 0 \/ ~InBounds(items, i) THEN << >>
    ELSE << i >>
         \o (IF IsSome(At(items, i).right)
             THEN Visits(items, Unwrap(At(items, i).right), n - 1)
             ELSE << >>)
         \o (IF IsSome(At(items, i).down)
             THEN Visits(items, Unwrap(At(items, i).down), n - 1)
             ELSE << >>)
\* the traversal from index 0 ends within the depth of the array and visits
\* no pane twice
VisitsOnce(items) ==
    LET v == Visits(items, 0, Len(items) + 1)
    IN  /\ Len(v) <= Len(items)
        /\ \A a, b \in DOMAIN v : v[a] = v[b] => a = b

\* C30: if every parser thread eventually releases the session lock it
\* holds, a handler that has started returns: the traversals of plot_objects
\* and resize_context visit each pane at most once, and a handler that waits
\* for a session's lock gets it.
C30_Terminates ==
    /\ [](VisitsOnce(inner) /\ VisitsOnce(pending.inner))
    /\ ((pc > 0) ~> (pc = 0))

\* resize waits for the lock of a session that the session's parser thread
\* holds
C30_Witness ==
    /\ pc > 0 /\ ~panicked
    /\ last_op = "resize"
    /\ Count = 2
    /\ Steps[pc] = "lock"
    /\ locks[queue[1]] = "parser"

(* ------------------------------ SugarState ----------------------------- *)
\* the cell width or the cell height of s is 0
EmptyDimensions(s) ==
    s.layout.dimensions.width = 0 \/ s.layout.dimensions.height = 0

\* the calls that zero the cell size
Zeroing(c) ==
    \/ c.op \in {"compute_layout_rescale", "set_fonts"}
    \/ c.op = "compute_layout_font_size" /\ c.applied

\* C31: compute_changes sets latest_change to Repaint when the cell width or
\* height is 0 and to Different otherwise; compute_layout_rescale, set_fonts
\* and an applied compute_layout_font_size leave a zero cell size and
\* Repaint, and from a zero cell size with Repaint every call, compute_changes
\* included, leaves Repaint, and only compute_dimensions ends the zero cell
\* size.
C31_StaysRepaint ==
    [][ /\ call'.op = "compute_changes" =>
            /\ EmptyDimensions(state) => state'.latest_change = "Repaint"
            /\ ~EmptyDimensions(state) => state'.latest_change = "Different"
        /\ Zeroing(call') =>
            /\ state'.layout.dimensions = [width |-> 0, height |-> 0]
            /\ state'.latest_change = "Repaint"
        /\ (EmptyDimensions(state) /\ state.latest_change = "Repaint") =>
            /\ state'.latest_change = "Repaint"
            /\ ~EmptyDimensions(state') =>
                  /\ call'.op = "compute_dimensions"
                  /\ call'.dimension # << >>
                  /\ call'.dimension[1] = state'.layout.dimensions
      ]_vars

\* compute_changes is called again while compute_dimensions has stored a
\* height and no width yet
C31_Witness ==
    /\ call.op = "compute_changes"
    /\ before = state
    /\ state.layout.dimensions.width = 0
    /\ state.layout.dimensions.height # 0
    /\ state.latest_change = "Repaint"

\* C32: latest_change = Different only with a non-zero cell width and
\* height; a call that leaves a zero cell size where there was none leaves
\* Repaint, and new() leaves Repaint.
C32_DifferentHasDimensions ==
    /\ state.latest_change = "Different" => ~EmptyDimensions(state)
    /\ (EmptyDimensions(state) /\ ~EmptyDimensions(before)) =>
          state.latest_change = "Repaint"
    /\ call.op = "new" => state.latest_change = "Repaint"

\* set_fonts on a state with latest_change = Different
C32_Witness ==
    /\ call.op = "set_fonts"
    /\ before.latest_change = "Different"
    /\ ~EmptyDimensions(before)
    /\ EmptyDimensions(state)
    /\ state.latest_change = "Repaint"

IsRichText(o) == o.kind = "RichText"

\* C33: after compute_objects(new_objects), objects is new_objects and
\* rich_texts is the subsequence of the RichText entries of new_objects,
\* whatever the lists held before; in every state every RichText of objects
\* is in rich_texts.
C33_ObjectsReplaced ==
    /\ call.op = "compute_objects" =>
          /\ state.objects = call.new_objects
          /\ state.rich_texts = SelectSeq(call.new_objects, IsRichText)
    /\ \A n \in DOMAIN state.objects :
          IsRichText(state.objects[n]) =>
              \E k \in DOMAIN state.rich_texts :
                  state.rich_texts[k] = state.objects[n]

\* compute_objects on lists that held a RichText, with a RichText after
\* another object
C33_Witness ==
    /\ call.op = "compute_objects"
    /\ before.objects # << >>
    /\ before.rich_texts # << >>
    /\ Len(call.new_objects) = 2
    /\ ~IsRichText(call.new_objects[1])
    /\ IsRichText(call.new_objects[2])
    /\ state.rich_texts # before.rich_texts

====
